---- MODULE Spec2Model ----
(***************************************************************************)
(* Model of the unixcycle lifecycle Manager (src/manager.go).              *)
(*                                                                         *)
(* One Manager is built, components are appended with Add, and Run drives  *)
(* setupComponents -> startComponents -> waitForSignal -> closeComponents. *)
(* Every goroutine of the code is a task of the model: the goroutine of    *)
(* funcOrTimeout (opTask), one goroutine per startable component (starter),*)
(* and the goroutine that calls the termination source (lifetimeTask).     *)
(* exitSignal is the buffered channel of capacity 1 the tasks send to.     *)
(*                                                                         *)
(* The probers and TestMain (src/testing.go) follow the Manager, each with *)
(* its own specification: SpecRetry (RetryingProber), SpecParallel         *)
(* (ParallelProber) and SpecTestMain (TestMain on top of the Manager).     *)
(* SpecRerun calls Run again on a Manager whose Run has returned, SpecLive *)
(* adds the fairness of the Go scheduler to the Manager, SpecGroup is     *)
(* ParallelProber given RetryingProbers, and SpecParallelLive adds the     *)
(* fairness of the scheduler to ParallelProber.                            *)
(***************************************************************************)
EXTENDS Integers, Sequences, FiniteSets, TLC

\* ------------------------------------------------------------------ bounds
MaxComponents == 2

\* ------------------------------------------------------- program constants
SIGABRT == 6
SIGALRM == 14
ExitSignalCap == 1

\* values the configured termination source may return
LifetimeValues == {0, 15}

nil == "nil"
errTimeout == "errTimeout"
errComponent == "errComponent"

NoMsg == [val |-> -1, src |-> -1]
NoErr == [phase |-> "none", idx |-> 0, err |-> nil]
LifetimeSrc == 0

VARIABLES
    components,     \* Manager.components: sequence of capability records
    pc,             \* position of the goroutine that executes Run
    idx,            \* position of the loop of the phase Run is in
    retval,         \* value returned by Run (-1 while Run has not returned)
    signal,         \* message received by waitForSignal (NoMsg before)
    exitSignal,     \* Manager.exitSignal: buffer of the channel
    opTask,         \* goroutine spawned by funcOrTimeout
    starter,        \* goroutine of each startable component
    outcome,        \* how each component's Start ended
    lifetimeTask,   \* goroutine that calls m.lifetime()
    lifetimeVal,    \* value m.lifetime() returned
    crashed,        \* an unrecovered panic took the process down
    setupCalls,     \* history: indices whose Setup was called, in order
    setupOk,        \* history: indices whose Setup returned nil, in order
    launches,       \* history: indices whose start goroutine was launched
    closeCalls,     \* history: indices whose Close was called, in order
    closeOk,        \* history: indices whose Close returned nil, in order
    phaseErr,       \* history: the setup/close call that failed or timed out
    written,        \* history: sources of the completed channel sends, in order
    afterFire,      \* history: runners whose Start returned an error after lifetime() returned
    lifetimeCalls,  \* history: number of invocations of m.lifetime()
    opResult,       \* history: what the operation raced by funcOrTimeout returned
    runs,           \* history: number of calls of Run on the Manager
    now,            \* the clock of the probers, in units of 50 ms
    ctx,            \* the context the caller passes to the prober
    rpCfg,          \* arguments of each RetryingProber and behaviour of its probe
    rp,             \* state of each running RetryingProber
    ppCfg,          \* behaviour of the probes given to ParallelProber
    pp,             \* state of the running ParallelProber
    tm              \* TestMain: its position, the prober and the test runner

managerVars ==
    <<components, pc, idx, retval, signal, exitSignal, opTask, starter,
      outcome, lifetimeTask, lifetimeVal, crashed, setupCalls, setupOk,
      launches, closeCalls, closeOk, phaseErr, written, afterFire,
      lifetimeCalls, opResult, runs>>

proberVars == <<now, ctx, rpCfg, rp, ppCfg, pp>>

testMainVars == <<tm>>

vars == <<managerVars, proberVars, testMainVars>>

N == Len(components)

\* ---------------------------------------------------------------- helpers
Capabilities == [hasSetup : BOOLEAN, hasStart : BOOLEAN, hasClose : BOOLEAN]

\* s.Component.(setupable) / (startable) / (closable)
setupable(c) == c.hasSetup
startable(c) == c.hasStart
closable(c) == c.hasClose

\* the registered components that pass each type assertion
Setupables == {i \in DOMAIN components : setupable(components[i])}
Startables == {i \in DOMAIN components : startable(components[i])}
Closables == {i \in DOMAIN components : closable(components[i])}

Range(s) == {s[i] : i \in DOMAIN s}

\* variant: the registration list walked from its end
RangeOrderReversed(n) == [k \in 1..n |-> n - k + 1]

\* for _, s := range m.components : the k-th component visited
RangeOrder(n) == [k \in 1..n |-> k]

\* variant: the close loop walks the list in registration order
BackwardAsForward(n) == [k \in 1..n |-> k]

\* for _, s := range slices.Backward(m.components) : the k-th component visited
Backward(n) == [k \in 1..n |-> n - k + 1]

\* variant: the start goroutine reports the timeout signal
StartFailureAlarm(i) == [val |-> SIGALRM, src |-> i]

\* the loop `for ... { x, ok := s.Component.(T); if ok { ... } }`: the first
\* position from k on, in the order visited, whose component passes the type
\* assertion; Len(order) + 1 when the loop runs to its end
NextCapable(order, capable, k) ==
    LET cand == {j \in k..Len(order) : order[j] \in capable}
    IN IF cand = {} THEN Len(order) + 1
       ELSE CHOOSE j \in cand : \A l \in cand : j <= l

\* the value a failing or panicking start goroutine sends
StartFailure(i) == [val |-> SIGABRT, src |-> i]

\* variant: the error of the operation is dropped
funcOrTimeoutDropsErr(first, res) == IF first = "timer" THEN errTimeout ELSE nil

\* select in funcOrTimeout: the case that becomes ready first decides.
\* Statements take no time next to a timeout: the caller is waiting in the
\* select when the timer fires.
funcOrTimeout(first, res) == IF first = "timer" THEN errTimeout ELSE res

\* variant: Run does not tell a timeout from a failure
SetupExitAbort(err) == SIGABRT

\* Run, after setupComponents returned a non-nil err
SetupExit(err) == IF err = errTimeout THEN SIGALRM ELSE SIGABRT

\* variant: Run returns the wait-phase cause whatever closeComponents returned
CloseExitKeepsSignal(err, sig) == sig

\* variant: Run returns Signal(0) after a clean close
CloseExitZero(err, sig) ==
    IF err = errTimeout THEN SIGALRM
    ELSE IF err # nil THEN SIGABRT
    ELSE 0

\* Run, after closeComponents returned err
CloseExit(err, sig) ==
    IF err = errTimeout THEN SIGALRM
    ELSE IF err # nil THEN SIGABRT
    ELSE sig

\* variant: a send that replaces the buffered value
ChanSendOverwrite(ch, m) == [ok |-> TRUE, ch |-> <<m>>]

\* m.exitSignal <- v : a blocking send on the buffered channel
ChanSend(ch, m) ==
    [ok |-> Len(ch) < ExitSignalCap, ch |-> Append(ch, m)]

\* variant: the deferred function does not recover
recoverNothing(panicking) == nil

\* recover() inside the deferred function of a start goroutine
recover(panicking) == IF panicking THEN "panic value" ELSE nil

\* ------------------------------------------------------------------- Init
ManagerInit ==
    /\ components = <<>>
    /\ pc = "created"
    /\ idx = 0
    /\ retval = -1
    /\ signal = NoMsg
    /\ exitSignal = <<>>
    /\ opTask = "none"
    /\ starter = <<>>
    /\ outcome = <<>>
    /\ lifetimeTask = "none"
    /\ lifetimeVal = -1
    /\ crashed = FALSE
    /\ setupCalls = <<>>
    /\ setupOk = <<>>
    /\ launches = <<>>
    /\ closeCalls = <<>>
    /\ closeOk = <<>>
    /\ phaseErr = NoErr
    /\ written = <<>>
    /\ afterFire = {}
    /\ lifetimeCalls = 0
    /\ opResult = "none"
    /\ runs = 0

\* no prober is in use
ProberIdle ==
    /\ now = 0
    /\ ctx = [err |-> nil, deadline |-> -1]
    /\ rpCfg = <<>>
    /\ rp = <<>>
    /\ ppCfg = <<>>
    /\ pp = [pc |-> "idle"]

\* TestMain is not in use
TestMainIdle ==
    tm = [pc |-> "idle", probe |-> "none", probeCalls |-> 0,
          runCalls |-> 0, runVal |-> -1, ret |-> -1]

Init ==
    /\ ManagerInit
    /\ ProberIdle
    /\ TestMainIdle

\* ---------------------------------------------------------------- Manager
Add(c) ==
    /\ pc = "created"
    /\ Len(components) < MaxComponents
    /\ components' = Append(components, c)
    /\ UNCHANGED <<pc, idx, retval, signal, exitSignal, opTask, starter,
                   outcome, lifetimeTask, lifetimeVal, crashed, setupCalls,
                   setupOk, launches, closeCalls, closeOk, phaseErr, written,
                   afterFire, lifetimeCalls>>
    /\ UNCHANGED opResult
    /\ UNCHANGED proberVars
    /\ UNCHANGED testMainVars
    /\ UNCHANGED runs

\* variant: the termination source is called before setupComponents
RunCallsLifetimeFirst ==
    /\ pc = "created"
    /\ pc' = "setupComponents"
    /\ idx' = 1
    /\ starter' = [i \in DOMAIN components |-> "none"]
    /\ outcome' = [i \in DOMAIN components |-> "none"]
    /\ lifetimeTask' = "running"
    /\ lifetimeCalls' = lifetimeCalls + 1
    /\ UNCHANGED <<components, retval, signal, exitSignal, opTask,
                   lifetimeVal, crashed, setupCalls, setupOk,
                   launches, closeCalls, closeOk, phaseErr, written,
                   afterFire>>
    /\ UNCHANGED opResult
    /\ UNCHANGED proberVars
    /\ UNCHANGED testMainVars
    /\ runs' = runs + 1

\* the caller invokes Run: setupComponents starts at the first component
Run ==
    /\ pc = "created"
    /\ pc' = "setupComponents"
    /\ idx' = 1
    /\ starter' = [i \in DOMAIN components |-> "none"]
    /\ outcome' = [i \in DOMAIN components |-> "none"]
    /\ UNCHANGED <<components, retval, signal, exitSignal, opTask,
                   lifetimeTask, lifetimeVal, crashed, setupCalls, setupOk,
                   launches, closeCalls, closeOk, phaseErr, written,
                   afterFire, lifetimeCalls>>
    /\ UNCHANGED opResult
    /\ UNCHANGED proberVars
    /\ UNCHANGED testMainVars
    /\ runs' = runs + 1

\* the loop of setupComponents up to its next call of funcOrTimeout, or to its
\* end, where Run goes on to startComponents
SetupIter ==
    /\ pc = "setupComponents"
    /\ LET k == NextCapable(RangeOrder(N), Setupables, idx)
       IN IF k > N
            THEN /\ pc' = "startComponents"
                 /\ idx' = 1
                 /\ UNCHANGED <<setupCalls, opTask>>
            ELSE /\ setupCalls' = Append(setupCalls, RangeOrder(N)[k])
                 /\ opTask' = "running"
                 /\ pc' = "setupWait"
                 /\ idx' = k
    /\ UNCHANGED <<components, retval, signal, exitSignal, starter, outcome,
                   lifetimeTask, lifetimeVal, crashed, setupOk, launches,
                   closeCalls, closeOk, phaseErr, written, afterFire,
                   lifetimeCalls>>
    /\ opResult' = IF opTask' = "running" THEN "pending" ELSE opResult
    /\ UNCHANGED proberVars
    /\ UNCHANGED testMainVars
    /\ UNCHANGED runs

\* variant: a failed or timed out Setup is logged and the loop goes on
AfterSetupIgnoreErr(err) ==
    /\ idx' = idx + 1
    /\ pc' = "setupComponents"
    /\ UNCHANGED retval
    /\ IF err = nil
         THEN /\ setupOk' = Append(setupOk, RangeOrder(N)[idx])
              /\ UNCHANGED phaseErr
         ELSE /\ phaseErr' = [phase |-> "setup", idx |-> RangeOrder(N)[idx], err |-> err]
              /\ UNCHANGED setupOk

\* setupComponents and Run once funcOrTimeout(setupable.Setup, ...) returned err
AfterSetup(err) ==
    IF err = nil
      THEN /\ setupOk' = Append(setupOk, RangeOrder(N)[idx])
           /\ idx' = idx + 1
           /\ pc' = "setupComponents"
           /\ UNCHANGED <<retval, phaseErr>>
      ELSE /\ phaseErr' = [phase |-> "setup", idx |-> RangeOrder(N)[idx], err |-> err]
           /\ retval' = SetupExit(err)
           /\ pc' = "done"
           /\ UNCHANGED <<idx, setupOk>>

\* Setup returns res before the timer fires
SetupDone(res) ==
    /\ pc = "setupWait"
    /\ opTask = "running"
    /\ opTask' = "none"
    /\ AfterSetup(funcOrTimeout("op", res))
    /\ UNCHANGED <<components, signal, exitSignal, starter, outcome,
                   lifetimeTask, lifetimeVal, crashed, setupCalls, launches,
                   closeCalls, closeOk, written, afterFire, lifetimeCalls>>
    /\ opResult' = res
    /\ UNCHANGED proberVars
    /\ UNCHANGED testMainVars
    /\ UNCHANGED runs

\* variant: on a timeout Run returns only once the operation has ended
SetupTimerJoins ==
    /\ pc = "setupWait"
    /\ opTask = "running"
    /\ opTask' = "finished"
    /\ AfterSetup(funcOrTimeout("timer", nil))
    /\ \E res \in {nil, errComponent} : opResult' = res
    /\ UNCHANGED <<components, signal, exitSignal, starter, outcome,
                   lifetimeTask, lifetimeVal, crashed, setupCalls, launches,
                   closeCalls, closeOk, written, afterFire, lifetimeCalls>>
    /\ UNCHANGED proberVars
    /\ UNCHANGED testMainVars
    /\ UNCHANGED runs

\* the timer fires before Setup returns; the goroutine keeps running
SetupTimer ==
    /\ pc = "setupWait"
    /\ opTask = "running"
    /\ opTask' = "leaked"
    /\ AfterSetup(funcOrTimeout("timer", nil))
    /\ UNCHANGED <<components, signal, exitSignal, starter, outcome,
                   lifetimeTask, lifetimeVal, crashed, setupCalls, launches,
                   closeCalls, closeOk, written, afterFire, lifetimeCalls>>
    /\ UNCHANGED opResult
    /\ UNCHANGED proberVars
    /\ UNCHANGED testMainVars
    /\ UNCHANGED runs

\* the operation abandoned by funcOrTimeout completes in the background
LeakedDone ==
    /\ opTask = "leaked"
    /\ opTask' = "finished"
    /\ UNCHANGED <<components, pc, idx, retval, signal, exitSignal, starter,
                   outcome, lifetimeTask, lifetimeVal, crashed, setupCalls,
                   setupOk, launches, closeCalls, closeOk, phaseErr, written,
                   afterFire, lifetimeCalls>>
    /\ \E res \in {nil, errComponent} : opResult' = res
    /\ UNCHANGED proberVars
    /\ UNCHANGED testMainVars
    /\ UNCHANGED runs

\* variant: Start is called in the loop itself, which goes on when it returned
StartIterWaits ==
    /\ pc = "startComponents"
    /\ \A j \in DOMAIN starter : starter[j] \in {"none", "exited"}
    /\ LET k == NextCapable(RangeOrder(N), Startables, idx)
       IN IF k > N
            THEN /\ pc' = "waitForSignal"
                 /\ UNCHANGED <<idx, starter, launches>>
            ELSE /\ starter' = [starter EXCEPT ![RangeOrder(N)[k]] = "running"]
                 /\ launches' = Append(launches, RangeOrder(N)[k])
                 /\ idx' = k + 1
                 /\ UNCHANGED pc
    /\ UNCHANGED <<components, retval, signal, exitSignal, opTask, outcome,
                   lifetimeTask, lifetimeVal, crashed, setupCalls, setupOk,
                   closeCalls, closeOk, phaseErr, written, afterFire,
                   lifetimeCalls>>
    /\ UNCHANGED opResult
    /\ UNCHANGED proberVars
    /\ UNCHANGED testMainVars
    /\ UNCHANGED runs

\* variant: the loop ends at the first runner that has failed
StartIterStopsOnFailure ==
    /\ pc = "startComponents"
    /\ LET k == IF \E j \in DOMAIN outcome : outcome[j] \in {"err", "panic"}
                  THEN N + 1
                  ELSE NextCapable(RangeOrder(N), Startables, idx)
       IN IF k > N
            THEN /\ pc' = "waitForSignal"
                 /\ UNCHANGED <<idx, starter, launches>>
            ELSE /\ starter' = [starter EXCEPT ![RangeOrder(N)[k]] = "running"]
                 /\ launches' = Append(launches, RangeOrder(N)[k])
                 /\ idx' = k + 1
                 /\ UNCHANGED pc
    /\ UNCHANGED <<components, retval, signal, exitSignal, opTask, outcome,
                   lifetimeTask, lifetimeVal, crashed, setupCalls, setupOk,
                   closeCalls, closeOk, phaseErr, written, afterFire,
                   lifetimeCalls>>
    /\ UNCHANGED opResult
    /\ UNCHANGED proberVars
    /\ UNCHANGED testMainVars
    /\ UNCHANGED runs

\* the loop of startComponents up to its next `go func()`, or to its end, where
\* Run goes on to waitForSignal; the launched goroutine is inside Start
StartIter ==
    /\ pc = "startComponents"
    /\ LET k == NextCapable(RangeOrder(N), Startables, idx)
       IN IF k > N
            THEN /\ pc' = "waitForSignal"
                 /\ UNCHANGED <<idx, starter, launches>>
            ELSE /\ starter' = [starter EXCEPT ![RangeOrder(N)[k]] = "running"]
                 /\ launches' = Append(launches, RangeOrder(N)[k])
                 /\ idx' = k + 1
                 /\ UNCHANGED pc
    /\ UNCHANGED <<components, retval, signal, exitSignal, opTask, outcome,
                   lifetimeTask, lifetimeVal, crashed, setupCalls, setupOk,
                   closeCalls, closeOk, phaseErr, written, afterFire,
                   lifetimeCalls>>
    /\ UNCHANGED opResult
    /\ UNCHANGED proberVars
    /\ UNCHANGED testMainVars
    /\ UNCHANGED runs

\* has m.lifetime() already returned its value
Fired == lifetimeTask \in {"returned", "exited"}

\* variant: the goroutine sends to the channel whatever Start returned
StartReturnAlwaysSends(i, res) ==
    /\ starter[i] = "running"
    /\ outcome' = [outcome EXCEPT ![i] = IF res = nil THEN "ok" ELSE "err"]
    /\ starter' = [starter EXCEPT ![i] = "sending"]
    /\ afterFire' = IF Fired /\ res # nil THEN afterFire \cup {i} ELSE afterFire
    /\ UNCHANGED <<components, pc, idx, retval, signal, exitSignal, opTask,
                   lifetimeTask, lifetimeVal, crashed, setupCalls, setupOk,
                   launches, closeCalls, closeOk, phaseErr, written,
                   lifetimeCalls>>
    /\ UNCHANGED opResult
    /\ UNCHANGED proberVars
    /\ UNCHANGED testMainVars
    /\ UNCHANGED runs

\* Start returns res: nil ends the goroutine, an error is to be sent
StartReturn(i, res) ==
    /\ starter[i] = "running"
    /\ outcome' = [outcome EXCEPT ![i] = IF res = nil THEN "ok" ELSE "err"]
    /\ starter' = [starter EXCEPT ![i] = IF res = nil THEN "exited" ELSE "sending"]
    /\ afterFire' = IF Fired /\ res # nil THEN afterFire \cup {i} ELSE afterFire
    /\ UNCHANGED <<components, pc, idx, retval, signal, exitSignal, opTask,
                   lifetimeTask, lifetimeVal, crashed, setupCalls, setupOk,
                   launches, closeCalls, closeOk, phaseErr, written,
                   lifetimeCalls>>
    /\ UNCHANGED opResult
    /\ UNCHANGED proberVars
    /\ UNCHANGED testMainVars
    /\ UNCHANGED runs

\* Start panics: the goroutine unwinds into its deferred function,
\*   if r := recover(); r != nil { ... m.exitSignal <- syscall.SIGABRT }
\* a panic nobody recovers ends the process
StartPanic(i) ==
    /\ starter[i] = "running"
    /\ outcome' = [outcome EXCEPT ![i] = "panic"]
    /\ IF recover(TRUE) # nil
         THEN /\ starter' = [starter EXCEPT ![i] = "sending"]
              /\ UNCHANGED crashed
         ELSE /\ starter' = [starter EXCEPT ![i] = "exited"]
              /\ crashed' = TRUE
    /\ UNCHANGED <<components, pc, idx, retval, signal, exitSignal, opTask,
                   lifetimeTask, lifetimeVal, setupCalls, setupOk,
                   launches, closeCalls, closeOk, phaseErr, written,
                   afterFire, lifetimeCalls>>
    /\ UNCHANGED opResult
    /\ UNCHANGED proberVars
    /\ UNCHANGED testMainVars
    /\ UNCHANGED runs

\* m.exitSignal <- syscall.SIGABRT in the start goroutine of component i
StartSend(i) ==
    /\ starter[i] = "sending"
    /\ LET r == ChanSend(exitSignal, StartFailure(i))
       IN /\ r.ok
          /\ exitSignal' = r.ch
    /\ written' = Append(written, i)
    /\ starter' = [starter EXCEPT ![i] = "exited"]
    /\ UNCHANGED <<components, pc, idx, retval, signal, opTask, outcome,
                   lifetimeTask, lifetimeVal, crashed, setupCalls, setupOk,
                   launches, closeCalls, closeOk, phaseErr, afterFire,
                   lifetimeCalls>>
    /\ UNCHANGED opResult
    /\ UNCHANGED proberVars
    /\ UNCHANGED testMainVars
    /\ UNCHANGED runs

\* waitForSignal launches the goroutine that calls m.lifetime()
WaitSpawn ==
    /\ pc = "waitForSignal"
    /\ pc' = "recv"
    /\ lifetimeTask' = "running"
    /\ lifetimeCalls' = lifetimeCalls + 1
    /\ UNCHANGED <<components, idx, retval, signal, exitSignal, opTask,
                   starter, outcome, lifetimeVal, crashed, setupCalls,
                   setupOk, launches, closeCalls, closeOk, phaseErr, written,
                   afterFire>>
    /\ UNCHANGED opResult
    /\ UNCHANGED proberVars
    /\ UNCHANGED testMainVars
    /\ UNCHANGED runs

\* m.lifetime() returns v
LifetimeReturn(v) ==
    /\ lifetimeTask = "running"
    /\ lifetimeTask' = "returned"
    /\ lifetimeVal' = v
    /\ UNCHANGED <<components, pc, idx, retval, signal, exitSignal, opTask,
                   starter, outcome, crashed, setupCalls, setupOk, launches,
                   closeCalls, closeOk, phaseErr, written, afterFire,
                   lifetimeCalls>>
    /\ UNCHANGED opResult
    /\ UNCHANGED proberVars
    /\ UNCHANGED testMainVars
    /\ UNCHANGED runs

\* m.exitSignal <- (the value m.lifetime() returned)
LifetimeSend ==
    /\ lifetimeTask = "returned"
    /\ LET r == ChanSend(exitSignal, [val |-> lifetimeVal, src |-> LifetimeSrc])
       IN /\ r.ok
          /\ exitSignal' = r.ch
    /\ written' = Append(written, LifetimeSrc)
    /\ lifetimeTask' = "exited"
    /\ UNCHANGED <<components, pc, idx, retval, signal, opTask, starter,
                   outcome, lifetimeVal, crashed, setupCalls, setupOk,
                   launches, closeCalls, closeOk, phaseErr, afterFire,
                   lifetimeCalls>>
    /\ UNCHANGED opResult
    /\ UNCHANGED proberVars
    /\ UNCHANGED testMainVars
    /\ UNCHANGED runs

\* signal := <-m.exitSignal ; Run goes on to closeComponents
Recv ==
    /\ pc = "recv"
    /\ exitSignal # <<>>
    /\ signal' = Head(exitSignal)
    /\ exitSignal' = Tail(exitSignal)
    /\ pc' = "closeComponents"
    /\ idx' = 1
    /\ UNCHANGED <<components, retval, opTask, starter, outcome,
                   lifetimeTask, lifetimeVal, crashed, setupCalls, setupOk,
                   launches, closeCalls, closeOk, phaseErr, written,
                   afterFire, lifetimeCalls>>
    /\ UNCHANGED opResult
    /\ UNCHANGED proberVars
    /\ UNCHANGED testMainVars
    /\ UNCHANGED runs

\* the loop of closeComponents up to its next call of funcOrTimeout, or to its
\* end, where Run returns the signal
CloseIter ==
    /\ pc = "closeComponents"
    /\ LET k == NextCapable(Backward(N), Closables, idx)
       IN IF k > N
            THEN /\ retval' = CloseExit(nil, signal.val)
                 /\ pc' = "done"
                 /\ UNCHANGED <<idx, closeCalls, opTask>>
            ELSE /\ closeCalls' = Append(closeCalls, Backward(N)[k])
                 /\ opTask' = "running"
                 /\ pc' = "closeWait"
                 /\ idx' = k
                 /\ UNCHANGED retval
    /\ UNCHANGED <<components, signal, exitSignal, starter, outcome,
                   lifetimeTask, lifetimeVal, crashed, setupCalls, setupOk,
                   launches, closeOk, phaseErr, written, afterFire,
                   lifetimeCalls>>
    /\ opResult' = IF opTask' = "running" THEN "pending" ELSE opResult
    /\ UNCHANGED proberVars
    /\ UNCHANGED testMainVars
    /\ UNCHANGED runs

\* variant: a failed or timed out Close is logged and the loop goes on
AfterCloseIgnoreErr(err) ==
    /\ idx' = idx + 1
    /\ pc' = "closeComponents"
    /\ UNCHANGED retval
    /\ IF err = nil
         THEN /\ closeOk' = Append(closeOk, Backward(N)[idx])
              /\ UNCHANGED phaseErr
         ELSE /\ phaseErr' = [phase |-> "close", idx |-> Backward(N)[idx], err |-> err]
              /\ UNCHANGED closeOk

\* closeComponents and Run once funcOrTimeout(closable.Close, ...) returned err
AfterClose(err) ==
    IF err = nil
      THEN /\ closeOk' = Append(closeOk, Backward(N)[idx])
           /\ idx' = idx + 1
           /\ pc' = "closeComponents"
           /\ UNCHANGED <<retval, phaseErr>>
      ELSE /\ phaseErr' = [phase |-> "close", idx |-> Backward(N)[idx], err |-> err]
           /\ retval' = CloseExit(err, signal.val)
           /\ pc' = "done"
           /\ UNCHANGED <<idx, closeOk>>

\* Close returns res before the timer fires
CloseDone(res) ==
    /\ pc = "closeWait"
    /\ opTask = "running"
    /\ opTask' = "none"
    /\ AfterClose(funcOrTimeout("op", res))
    /\ UNCHANGED <<components, signal, exitSignal, starter, outcome,
                   lifetimeTask, lifetimeVal, crashed, setupCalls, setupOk,
                   launches, closeCalls, written, afterFire, lifetimeCalls>>
    /\ opResult' = res
    /\ UNCHANGED proberVars
    /\ UNCHANGED testMainVars
    /\ UNCHANGED runs

\* variant: Close is awaited without a timer
CloseTimerNeverFires ==
    /\ pc = "closeWait"
    /\ FALSE
    /\ opTask = "running"
    /\ opTask' = "leaked"
    /\ AfterClose(funcOrTimeout("timer", nil))
    /\ UNCHANGED <<components, signal, exitSignal, starter, outcome,
                   lifetimeTask, lifetimeVal, crashed, setupCalls, setupOk,
                   launches, closeCalls, written, afterFire, lifetimeCalls>>
    /\ UNCHANGED opResult
    /\ UNCHANGED proberVars
    /\ UNCHANGED testMainVars
    /\ UNCHANGED runs

\* the timer fires before Close returns; the goroutine keeps running
CloseTimer ==
    /\ pc = "closeWait"
    /\ opTask = "running"
    /\ opTask' = "leaked"
    /\ AfterClose(funcOrTimeout("timer", nil))
    /\ UNCHANGED <<components, signal, exitSignal, starter, outcome,
                   lifetimeTask, lifetimeVal, crashed, setupCalls, setupOk,
                   launches, closeCalls, written, afterFire, lifetimeCalls>>
    /\ UNCHANGED opResult
    /\ UNCHANGED proberVars
    /\ UNCHANGED testMainVars
    /\ UNCHANGED runs

Next ==
    \/ \E c \in Capabilities : Add(c)
    \/ Run
    \/ SetupIter
    \/ \E res \in {nil, errComponent} : SetupDone(res)
    \/ SetupTimer
    \/ LeakedDone
    \/ StartIter
    \/ \E i \in DOMAIN starter, res \in {nil, errComponent} : StartReturn(i, res)
    \/ \E i \in DOMAIN starter : StartPanic(i)
    \/ \E i \in DOMAIN starter : StartSend(i)
    \/ WaitSpawn
    \/ \E v \in LifetimeValues : LifetimeReturn(v)
    \/ LifetimeSend
    \/ Recv
    \/ CloseIter
    \/ \E res \in {nil, errComponent} : CloseDone(res)
    \/ CloseTimer

Spec == Init /\ [][Next]_vars

\* ----------------------------------------------------------- abbreviations
Running == pc # "created"
Returned == pc = "done"
Received == signal # NoMsg
NoStart == /\ launches = <<>>
           /\ \A i \in DOMAIN starter : starter[i] = "none"
IsPrefix(p, q) == /\ Len(p) <= Len(q)
                  /\ \A j \in DOMAIN p : p[j] = q[j]

\* C1: in every Run the Setup calls are issued one at a time, in registration
\* order, each at most once and only on components that expose Setup, and no
\* component's Start is launched or invoked before the Setup of every
\* Setup-capable component has returned nil.
C1_SetupBeforeStart ==
    Running =>
      /\ \A j \in DOMAIN setupCalls : setupCalls[j] \in Setupables
      /\ \A j, k \in DOMAIN setupCalls : j < k => setupCalls[j] < setupCalls[k]
      /\ \A j \in DOMAIN setupCalls : \A i \in Setupables :
            i < setupCalls[j] => i \in Range(setupCalls)
      /\ IsPrefix(setupOk, setupCalls)
      /\ Len(setupCalls) <= Len(setupOk) + 1
      /\ (opTask = "running" /\ pc = "setupWait") <=> (Len(setupCalls) = Len(setupOk) + 1 /\ pc # "done")
      /\ (~NoStart => Range(setupOk) = Setupables)

C1_Witness ==
    /\ setupOk = <<1, 2>>
    /\ \E i \in DOMAIN starter : starter[i] = "running"

\* C2: in every Run that reaches the close phase the Close calls are issued
\* one at a time in the reverse of registration order, each at most once and
\* only on components that expose Close, and none before waitForSignal has
\* received its cause.
C2_CloseReverseOrder ==
    Running =>
      /\ \A j \in DOMAIN closeCalls : closeCalls[j] \in Closables
      /\ \A j, k \in DOMAIN closeCalls : j < k => closeCalls[j] > closeCalls[k]
      /\ \A j \in DOMAIN closeCalls : \A i \in Closables :
            i > closeCalls[j] => i \in Range(closeCalls)
      /\ IsPrefix(closeOk, closeCalls)
      /\ Len(closeCalls) <= Len(closeOk) + 1
      /\ (closeCalls # <<>> => Received)
      /\ (pc \in {"closeComponents", "closeWait"} => Received)

C2_Witness ==
    /\ closeCalls = <<2, 1>>
    /\ closeOk = <<2, 1>>
    /\ Returned

\* C3: if a Setup does not complete within the setup timeout, no
\* later-registered Setup is invoked, no Start is ever launched and Run
\* returns SIGALRM.
C3_SetupTimeout ==
    (phaseErr.phase = "setup" /\ phaseErr.err = errTimeout) =>
      /\ Returned
      /\ retval = SIGALRM
      /\ \A j \in DOMAIN setupCalls : setupCalls[j] <= phaseErr.idx
      /\ NoStart

C3_Witness ==
    /\ phaseErr = [phase |-> "setup", idx |-> 1, err |-> errTimeout]
    /\ Returned
    /\ 2 \in Setupables \cap Startables
    /\ opTask = "leaked"

\* C4: if a Setup returns an error within the setup timeout, Run returns
\* SIGABRT and in that Run there is no later Setup, no Start, no invocation of
\* the termination source and no Close, not even of a component already set up.
C4_SetupFailure ==
    (phaseErr.phase = "setup" /\ phaseErr.err = errComponent) =>
      /\ Returned
      /\ retval = SIGABRT
      /\ \A j \in DOMAIN setupCalls : setupCalls[j] <= phaseErr.idx
      /\ NoStart
      /\ lifetimeCalls = 0
      /\ lifetimeTask = "none"
      /\ closeCalls = <<>>

C4_Witness ==
    /\ phaseErr = [phase |-> "setup", idx |-> 2, err |-> errComponent]
    /\ setupOk = <<1>>
    /\ 1 \in Closables \cap Startables
    /\ Returned

\* C5: whenever a Close returns an error or exceeds the close timeout, Run
\* returns SIGABRT respectively SIGALRM, whatever cause ended the wait phase.
C5_CloseOverrides ==
    phaseErr.phase = "close" =>
      /\ Returned
      /\ Received
      /\ (phaseErr.err = errComponent => retval = SIGABRT)
      /\ (phaseErr.err = errTimeout => retval = SIGALRM)

C5_Witness ==
    /\ phaseErr.phase = "close"
    /\ phaseErr.err = errTimeout
    /\ signal = [val |-> 15, src |-> LifetimeSrc]
    /\ retval = SIGALRM

\* C6: if every Setup and every Close succeeds within its timeout, Run returns
\* the cause that ended the wait phase; when no runner failed or panicked that
\* cause is the value the termination source returned.
C6_ReturnsWaitCause ==
    (Returned /\ phaseErr = NoErr) =>
      /\ Received
      /\ retval = signal.val
      /\ ((\A i \in DOMAIN outcome : outcome[i] \notin {"err", "panic"}) =>
            /\ signal.src = LifetimeSrc
            /\ retval = lifetimeVal)

C6_Witness ==
    /\ Returned
    /\ phaseErr = NoErr
    /\ retval = 15
    /\ setupOk # <<>>
    /\ closeOk # <<>>
    /\ \A i \in DOMAIN outcome : outcome[i] \notin {"err", "panic"}
\* position of source x in the order of the completed sends (0 when absent)
WrittenAt(x) ==
    IF x \in Range(written)
      THEN CHOOSE j \in DOMAIN written : written[j] = x
      ELSE 0
\* the send of x completed before any send of y
WrittenBefore(x, y) ==
    /\ WrittenAt(x) > 0
    /\ (WrittenAt(y) = 0 \/ WrittenAt(x) < WrittenAt(y))

\* C7 (as claimed): a runner whose Start returned an error only after the
\* termination source had returned its value never supplies the cause that
\* ends the wait phase.
C7_AsClaimed ==
    \A i \in DOMAIN outcome :
      (outcome[i] = "err" /\ i \in afterFire) => signal.src # i

\* C7 (amended): a runner whose failure is sent to the channel only after the
\* value of the termination source has been sent never supplies the cause that
\* ends the wait phase, and when the value of the termination source is the
\* first send completed, that value is the cause.
C7_SignalWrittenFirstWins ==
    /\ \A i \in DOMAIN outcome :
         (outcome[i] = "err" /\ WrittenBefore(LifetimeSrc, i)) => signal.src # i
    /\ (Received /\ written[1] = LifetimeSrc) =>
         signal = [val |-> lifetimeVal, src |-> LifetimeSrc]

C7_Witness ==
    /\ Returned
    /\ \E i \in DOMAIN outcome :
         /\ outcome[i] = "err"
         /\ i \in afterFire
         /\ written = <<LifetimeSrc, i>>
    /\ signal = [val |-> 15, src |-> LifetimeSrc]
    /\ retval = 15

\* C8 (as claimed): if a runner's Start returned an error before the
\* termination source returned any value, the wait phase ends with a start
\* failure (SIGABRT).
C8_AsClaimed ==
    (Received /\ \E i \in DOMAIN outcome : outcome[i] = "err" /\ i \notin afterFire) =>
      /\ signal.src # LifetimeSrc
      /\ signal.val = SIGABRT

\* C8 (amended): if a runner's failure is the first value sent to the channel,
\* the wait phase ends with that start failure (SIGABRT), the close phase then
\* runs, and Run returns SIGABRT when every Close succeeds, also when the
\* termination source never returns.
C8_StartFailureWrittenFirstWins ==
    (written # <<>> /\ written[1] # LifetimeSrc) =>
      /\ outcome[written[1]] \in {"err", "panic"}
      /\ (Received => signal = [val |-> SIGABRT, src |-> written[1]])
      /\ (Returned => Received)
      /\ ((Returned /\ phaseErr = NoErr) =>
            /\ retval = SIGABRT
            /\ Range(closeOk) = Closables)

C8_Witness ==
    /\ Returned
    /\ retval = SIGABRT
    /\ phaseErr = NoErr
    /\ lifetimeTask = "running"
    /\ written # <<>>
    /\ outcome[written[1]] = "err"
    /\ closeOk = <<2, 1>>

\* C9: a panic raised in a runner's Start is recovered in that runner's own
\* goroutine and sent to the channel as SIGABRT; it takes down neither the
\* process nor Run nor another goroutine, and Run still goes through the wait
\* and close phases.
C9_PanicContained ==
    /\ ~crashed
    /\ \A i \in DOMAIN outcome : outcome[i] = "panic" =>
         /\ starter[i] \in {"sending", "exited"}
         /\ (starter[i] = "exited" <=> i \in Range(written))
         /\ (signal.src = i => signal.val = SIGABRT)
         /\ \A m \in Range(exitSignal) : m.src = i => m.val = SIGABRT
         /\ (Returned =>
               /\ Received
               /\ (phaseErr = NoErr => Range(closeOk) = Closables)
               /\ phaseErr.phase # "setup")

C9_Witness ==
    /\ Returned
    /\ \E i \in DOMAIN outcome :
         /\ outcome[i] = "panic"
         /\ signal = [val |-> SIGABRT, src |-> i]
         /\ \E k \in DOMAIN outcome : k # i /\ outcome[k] = "ok"
    /\ closeOk # <<>>
    /\ retval = SIGABRT

\* tasks that have a value to send to the channel and have not sent it
PendingWriters ==
    {i \in DOMAIN starter : starter[i] = "sending"}
      \cup (IF lifetimeTask = "returned" THEN {LifetimeSrc} ELSE {})

\* C10 (as claimed): a writer whose cause arrives after one has been recorded
\* does not block: once Run has taken its cause, no task is left waiting to
\* send on a full channel.
C10_NoWriterLeftBlocked ==
    ~(/\ Received
      /\ Len(exitSignal) = ExitSignalCap
      /\ PendingWriters # {})
\* C11: each Run produces exactly one cause: Run returns once and its value
\* never changes afterwards, it takes at most one value out of the channel,
\* the value that ends the wait phase is the first one sent, and a value sent
\* later is never the one Run received.
C11_ExactlyOneCause ==
    /\ [](/\ Len(written) - Len(exitSignal) = (IF Received THEN 1 ELSE 0)
          /\ (Received => /\ written # <<>>
                          /\ signal.src = written[1]
                          /\ \A j \in DOMAIN written : j > 1 => written[j] # signal.src)
          /\ (Received <=> pc \in {"closeComponents", "closeWait"}
                             \/ (Returned /\ phaseErr.phase # "setup"))
          /\ (Returned <=> retval # -1))
    /\ [][/\ (Received => signal' = signal)
          /\ (Returned => (pc' = "done" /\ retval' = retval))]_vars

C11_Witness ==
    /\ Returned
    /\ Len(written) = 2
    /\ signal.src = written[1]
    /\ exitSignal # <<>>
    /\ exitSignal[1].val # signal.val
    /\ retval = signal.val

\* C12: funcOrTimeout hands back what the operation returned (nil or its
\* error, unchanged) whenever the operation ends before the timer fires, the
\* timeout error whenever the timer fires before the operation ends, and
\* nothing else.
C12_RaceResult ==
    /\ phaseErr.err \in {nil, errComponent, errTimeout}
    /\ (phaseErr.err = errTimeout <=> opTask \in {"leaked", "finished"})
    /\ ((opTask = "none" /\ opResult = errComponent) =>
          /\ phaseErr.err = errComponent
          /\ phaseErr.idx = (IF phaseErr.phase = "setup"
                               THEN setupCalls[Len(setupCalls)]
                               ELSE closeCalls[Len(closeCalls)]))
    /\ ((opTask = "none" /\ opResult = nil) =>
          /\ phaseErr = NoErr
          /\ Len(setupOk) = Len(setupCalls)
          /\ Len(closeOk) = Len(closeCalls))
    /\ (opTask = "running" <=> opResult = "pending" /\ pc \in {"setupWait", "closeWait"})

C12_Witness ==
    /\ opTask = "none"
    /\ opResult = errComponent
    /\ phaseErr = [phase |-> "close", idx |-> 1, err |-> errComponent]
    /\ closeOk = <<2>>

MaxInterval == 2
MaxTimeout == 21
MaxSuccessAfter == 2
MaxWork == 2
MaxCtxDeadline == 1

\* retryDelay, timeout and maxAttempts of the probe tests
TestRetryDelay == 2
TestTimeout == 21
TestMaxAttempts == TestTimeout \div TestRetryDelay

Canceled == "context canceled"
DeadlineExceeded == "context deadline exceeded"
errProberTimedOut == "prober timed out"
errRetryingFailed == "retrying prober failed"
NoDeadline == -1

\* successAfterCalls of a probe that fails on every call made before the deadline
NeverSucceeds == MaxTimeout + 1

Min(a, b) == IF a < b THEN a ELSE b

\* the arguments of RetryingProber and the probe it is given: a probe takes
\* workLoad to answer and fails while it has been called fewer than
\* successAfterCalls times; a probe that honours its context returns the
\* context's error as soon as the context it was given ends, the others
\* answer after workLoad whatever their context says
RetryConfigs ==
    [retryDelay : 1..MaxInterval,
     timeout : 0..MaxTimeout,
     successAfterCalls : (1..MaxSuccessAfter) \cup {NeverSucceeds},
     workLoad : 0..MaxWork,
     honours : BOOLEAN]

\* the contexts a caller passes: never cancelled yet, with or without deadline
CallerContexts == [err : {nil}, deadline : {NoDeadline} \cup (1..MaxCtxDeadline)]

\* what the probe returns on its calls-th call
ProbeResult(calls, cfg) == IF calls < cfg.successAfterCalls THEN errComponent ELSE nil

\* variant: every end of newCtx is reported as a timeout
RetryDoneErrAlwaysTimeout(err) == errProberTimedOut

\* case <-newCtx.Done() of RetryingProber
RetryDoneErr(err) ==
    IF err = DeadlineExceeded THEN errProberTimedOut ELSE errRetryingFailed

\* variant: a ticker that fires as soon as it is made
RetryStartTicksAtOnce(cfg, parent, t) ==
    [pc |-> "select", result |-> "none", calls |-> 0,
     tick |-> <<>>, nextTick |-> t,
     err |-> parent.err, deadline |-> t + cfg.timeout,
     attemptEnd |-> -1, attemptDeadline |-> -1,
     attemptTick |-> -1, attemptStart |-> -1, cut |-> FALSE, dropped |-> 0,
     sentAtDone |-> IF parent.err = nil THEN -1 ELSE 0, pendingAtDone |-> 0,
     late |-> 0, doneWhile |-> "none", doneAt |-> -1, returnedAt |-> -1]

\* RetryingProber at its first select: newCtx and the ticker exist
RetryStart(cfg, parent, t) ==
    [pc |-> "select", result |-> "none", calls |-> 0,
     tick |-> <<>>, nextTick |-> t + cfg.retryDelay,
     err |-> parent.err, deadline |-> t + cfg.timeout,
     attemptEnd |-> -1, attemptDeadline |-> -1,
     attemptTick |-> -1, attemptStart |-> -1, cut |-> FALSE, dropped |-> 0,
     sentAtDone |-> IF parent.err = nil THEN -1 ELSE 0, pendingAtDone |-> 0,
     late |-> 0, doneWhile |-> "none", doneAt |-> -1, returnedAt |-> -1]

Active(m) == rp[m].pc \in {"select", "probing"}

\* the ticks the ticker of RetryingProber m has sent so far, dropped ones
\* included
TicksSent(m) == rp[m].calls + rp[m].dropped + Len(rp[m].tick)

\* a RetryingProber is in its select with a case ready
SelectReady(m) ==
    /\ rp[m].pc = "select"
    /\ (rp[m].err # nil \/ rp[m].tick # <<>>)

AnySelectReady == \E m \in DOMAIN rp : SelectReady(m)

\* ParallelProber: the probes it is given and its state
MaxMembers == 2
MaxNow == 3

errParallelErrored == "parallel prober errored"
errParallelTimedOut == "parallel prober timed out"
errParallelFailed == "parallel prober failed"
Never == -1

\* the probes given to ParallelProber: a probe returns result after workLoad
\* (or never); one that honours its context returns the context's error as
\* soon as the context ends
MemberConfigs ==
    [result : {nil, errComponent},
     workLoad : (0..MaxWork) \cup {Never},
     honours : BOOLEAN]

\* ParallelProber entered: errgroup.WithContext(ctx) and errChan exist
ParallelStart(n, parent) ==
    [pc |-> "launching", result |-> "none", returnedAt |-> -1,
     newErr |-> parent.err, groupErr |-> nil, failedAt |-> -1,
     forwarder |-> "none", doneClean |-> FALSE, doneAt |-> -1,
     member |-> [i \in 1..n |-> [state |-> "none", calls |-> 0,
                                 end |-> Never, result |-> "none"]]]

Launched == pp.pc \in {"launching", "select", "returned"}

MemberRunning(i) == Launched /\ i \in DOMAIN pp.member /\ pp.member[i].state = "running"

AllReturned == \A i \in DOMAIN pp.member : pp.member[i].state = "returned"

AllSucceeded == \A i \in DOMAIN pp.member : pp.member[i].result = nil

\* the select of ParallelProber has a case ready
ParallelSelectReady ==
    /\ pp.pc = "select"
    /\ (pp.forwarder = "sending" \/ ctx.err # nil)

\* some prober, or a probe it started, is still at work
ProberRunning ==
    \/ \E m \in DOMAIN rp : Active(m)
    \/ pp.pc \in {"launching", "select"}
    \/ \E i \in DOMAIN ppCfg : MemberRunning(i)

\* ctx ends with error e: newCtx of the errgroup ends with it unless it has
\* ended before
PropagateParallel(e) ==
    IF Launched
    THEN [pp EXCEPT !.newErr = IF pp.newErr = nil THEN e ELSE pp.newErr,
                    !.doneClean = (pp.groupErr = nil /\ ~AllReturned),
                    !.doneAt = now]
    ELSE pp

\* a context ends with error e: every context derived from it that has not
\* ended yet ends with the same error
Propagate(e) ==
    [m \in DOMAIN rp |->
        IF Active(m) /\ rp[m].err = nil
        THEN IF rp[m].pc = "probing" /\ rpCfg[m].honours /\ rp[m].attemptEnd > now
             THEN [rp[m] EXCEPT !.err = e, !.doneWhile = rp[m].pc, !.doneAt = now,
                                !.sentAtDone = TicksSent(m),
                                !.pendingAtDone = Len(rp[m].tick),
                                !.attemptEnd = now, !.cut = TRUE]
             ELSE [rp[m] EXCEPT !.err = e, !.doneWhile = rp[m].pc, !.doneAt = now,
                                !.sentAtDone = TicksSent(m),
                                !.pendingAtDone = Len(rp[m].tick)]
        ELSE rp[m]]

\* one RetryingProber is called at time 0 with a live context
RetryInit ==
    /\ ManagerInit
    /\ now = 0
    /\ ctx \in CallerContexts
    /\ \E cfg \in RetryConfigs :
        /\ rpCfg = <<cfg>>
        /\ rp = <<RetryStart(cfg, ctx, 0)>>
    /\ ppCfg = <<>>
    /\ pp = [pc |-> "idle"]
    /\ TestMainIdle

\* the ticker sends on t.C, a channel of capacity 1: a tick nobody took yet
\* makes the next one be dropped
RetryTickerFire(m) ==
    /\ Active(m)
    /\ rp[m].nextTick = now
    /\ ~AnySelectReady
    /\ rp' = [rp EXCEPT ![m].tick = IF rp[m].tick = <<>> THEN <<now>> ELSE rp[m].tick,
                        ![m].dropped = rp[m].dropped + (IF rp[m].tick = <<>> THEN 0 ELSE 1),
                        ![m].nextTick = now + rpCfg[m].retryDelay]
    /\ UNCHANGED <<now, ctx, rpCfg, ppCfg, pp>>
    /\ UNCHANGED managerVars
    /\ UNCHANGED testMainVars

\* the timer of context.WithTimeout(ctx, timeout) fires
RetryDeadline(m) ==
    /\ Active(m)
    /\ rp[m].err = nil
    /\ rp[m].deadline = now
    /\ ~AnySelectReady
    /\ rp' = [rp EXCEPT ![m].err = DeadlineExceeded,
                        ![m].doneWhile = rp[m].pc,
                        ![m].doneAt = now,
                        ![m].sentAtDone = TicksSent(m),
                        ![m].pendingAtDone = Len(rp[m].tick)]
    /\ UNCHANGED <<now, ctx, rpCfg, ppCfg, pp>>
    /\ UNCHANGED managerVars
    /\ UNCHANGED testMainVars

\* the caller cancels the context it passed
CtxCancel ==
    /\ ctx.err = nil
    /\ ProberRunning
    /\ ~AnySelectReady
    /\ ~ParallelSelectReady
    /\ ctx' = [ctx EXCEPT !.err = Canceled]
    /\ rp' = Propagate(Canceled)
    /\ pp' = PropagateParallel(Canceled)
    /\ UNCHANGED <<now, rpCfg, ppCfg>>
    /\ UNCHANGED managerVars
    /\ UNCHANGED testMainVars

\* the deadline of the caller's context passes
CtxDeadline ==
    /\ ctx.err = nil
    /\ ctx.deadline = now
    /\ ProberRunning
    /\ ~AnySelectReady
    /\ ~ParallelSelectReady
    /\ ctx' = [ctx EXCEPT !.err = DeadlineExceeded]
    /\ rp' = Propagate(DeadlineExceeded)
    /\ pp' = PropagateParallel(DeadlineExceeded)
    /\ UNCHANGED <<now, rpCfg, ppCfg>>
    /\ UNCHANGED managerVars
    /\ UNCHANGED testMainVars

\* case <-newCtx.Done(): RetryingProber returns the failure
RetrySelectDone(m) ==
    /\ rp[m].pc = "select"
    /\ rp[m].err # nil
    /\ rp' = [rp EXCEPT ![m].pc = "returned",
                        ![m].result = RetryDoneErr(rp[m].err),
                        ![m].returnedAt = now]
    /\ UNCHANGED <<now, ctx, rpCfg, ppCfg, pp>>
    /\ UNCHANGED managerVars
    /\ UNCHANGED testMainVars

\* variant: attemptCtx lasts as long as newCtx
AttemptDeadlineOverall(m, tick) == rp[m].deadline

\* the deadline of attemptCtx, made from a tick sent at time tick: a context
\* never outlives its parent
AttemptDeadline(m, tick) == Min(tick + rpCfg[m].retryDelay, rp[m].deadline)

\* when the probe called at time t with attemptCtx ending at d returns
AttemptEnd(m, t, d) ==
    IF ~rpCfg[m].honours THEN t + rpCfg[m].workLoad
    ELSE IF rp[m].err # nil \/ d <= t THEN t
    ELSE Min(t + rpCfg[m].workLoad, d)

\* case tick := <-t.C: attemptCtx is made and the probe called
RetrySelectTick(m) ==
    /\ rp[m].pc = "select"
    /\ rp[m].tick # <<>>
    /\ LET d == AttemptDeadline(m, rp[m].tick[1])
           e == AttemptEnd(m, now, d)
       IN rp' = [rp EXCEPT ![m].pc = "probing",
                           ![m].tick = <<>>,
                           ![m].calls = rp[m].calls + 1,
                           ![m].attemptTick = rp[m].tick[1],
                           ![m].attemptStart = now,
                           ![m].attemptEnd = e,
                           ![m].attemptDeadline = d,
                           ![m].cut = (e < now + rpCfg[m].workLoad),
                           ![m].late = rp[m].late + (IF rp[m].err # nil THEN 1 ELSE 0)]
    /\ UNCHANGED <<now, ctx, rpCfg, ppCfg, pp>>
    /\ UNCHANGED managerVars
    /\ UNCHANGED testMainVars

\* what prober(attemptCtx) may return at the present instant: a probe that
\* honours its context returns the context's error when the context ended
\* before the answer was ready, and either when both happen at the same time
AttemptResults(m) ==
    LET answer == ProbeResult(rp[m].calls, rpCfg[m])
        ended == rp[m].err # nil \/ rp[m].attemptDeadline <= now
    IN IF ~rpCfg[m].honours THEN {answer}
       ELSE IF rp[m].cut THEN {DeadlineExceeded}
       ELSE IF ended THEN {answer, DeadlineExceeded}
       ELSE {answer}

\* variant: the loop goes on after an attempt that succeeded
RetryProbeReturnKeepsGoing(m) ==
    /\ rp[m].pc = "probing"
    /\ rp[m].attemptEnd = now
    /\ rp' = [rp EXCEPT ![m].pc = "select"]
    /\ UNCHANGED <<now, ctx, rpCfg, ppCfg, pp>>
    /\ UNCHANGED managerVars
    /\ UNCHANGED testMainVars

\* prober(attemptCtx) returns: nil ends RetryingProber, an error goes back to
\* the select
RetryProbeReturn(m) ==
    /\ rp[m].pc = "probing"
    /\ rp[m].attemptEnd = now
    /\ \E res \in AttemptResults(m) :
        rp' = IF res = nil
              THEN [rp EXCEPT ![m].pc = "returned",
                              ![m].result = nil,
                              ![m].returnedAt = now]
              ELSE [rp EXCEPT ![m].pc = "select"]
    /\ UNCHANGED <<now, ctx, rpCfg, ppCfg, pp>>
    /\ UNCHANGED managerVars
    /\ UNCHANGED testMainVars

\* something is due at the present instant
RetryUrgent ==
    \/ AnySelectReady
    \/ ctx.err = nil /\ ctx.deadline = now
    \/ \E m \in DOMAIN rp :
        \/ Active(m) /\ rp[m].nextTick = now
        \/ Active(m) /\ rp[m].err = nil /\ rp[m].deadline = now
        \/ rp[m].pc = "probing" /\ rp[m].attemptEnd = now

\* time passes while a prober runs and nothing is due
RetryAdvance ==
    /\ \E m \in DOMAIN rp : Active(m)
    /\ ~RetryUrgent
    /\ now' = now + 1
    /\ UNCHANGED <<ctx, rpCfg, rp, ppCfg, pp>>
    /\ UNCHANGED managerVars
    /\ UNCHANGED testMainVars

RetryNext ==
    \/ \E m \in DOMAIN rp : RetryTickerFire(m)
    \/ \E m \in DOMAIN rp : RetryDeadline(m)
    \/ CtxCancel
    \/ CtxDeadline
    \/ \E m \in DOMAIN rp : RetrySelectDone(m)
    \/ \E m \in DOMAIN rp : RetrySelectTick(m)
    \/ \E m \in DOMAIN rp : RetryProbeReturn(m)
    \/ RetryAdvance

SpecRetry == RetryInit /\ [][RetryNext]_vars

\* ------------------------------------------------------------------ claims
\* (RetryingProber)

\* C14: RetryingProber with an interval of 100 ms and a deadline of 1050 ms,
\* given a probe that answers at once and never succeeds and a caller context
\* that never ends, calls the probe exactly 10 times and returns the
\* "prober timed out" failure, when the deadline passes.
C14_TenAttemptsThenTimeout ==
    \A m \in DOMAIN rp :
        (/\ rpCfg[m] = [retryDelay |-> TestRetryDelay, timeout |-> TestTimeout,
                        successAfterCalls |-> NeverSucceeds, workLoad |-> 0,
                  honours |-> FALSE]
         /\ ctx = [err |-> nil, deadline |-> NoDeadline])
        => /\ TestMaxAttempts = 10
           /\ rp[m].calls <= TestMaxAttempts
           /\ rp[m].pc = "returned" =>
                /\ rp[m].calls = TestMaxAttempts
                /\ rp[m].result = errProberTimedOut
                /\ rp[m].returnedAt = TestTimeout

C14_Witness ==
    /\ rpCfg = <<[retryDelay |-> TestRetryDelay, timeout |-> TestTimeout,
                  successAfterCalls |-> NeverSucceeds, workLoad |-> 0,
                  honours |-> FALSE]>>
    /\ ctx = [err |-> nil, deadline |-> NoDeadline]
    /\ rp[1].pc = "returned"
    /\ rp[1].calls = 10
    /\ rp[1].result = errProberTimedOut
    /\ now = TestTimeout

\* C15: RetryingProber returns success at the first attempt that succeeds and
\* never calls the probe again: with a probe that first succeeds on its k-th
\* call (k = successAfterCalls: the calls of a probe that honours its context
\* and is cut short by it fail too, so that its first success may come later
\* than its k-th call), the probe is never called more than k times,
\* RetryingProber returns success exactly when the k-th call has returned, and
\* once it has returned the number of calls stays what it is.
C15_FirstSuccessReturns ==
    /\ [](\A m \in DOMAIN rp :
            /\ ~rpCfg[m].honours =>
                /\ rp[m].calls <= rpCfg[m].successAfterCalls
                /\ (rp[m].result = nil) <=>
                        (rp[m].pc = "returned" /\ rp[m].calls = rpCfg[m].successAfterCalls)
                /\ (rp[m].pc = "select" => rp[m].calls < rpCfg[m].successAfterCalls)
            /\ rp[m].result = nil =>
                /\ rp[m].pc = "returned"
                /\ rp[m].calls >= rpCfg[m].successAfterCalls)
    /\ [][\A m \in DOMAIN rp :
            rp[m].pc = "returned" => (rp'[m].pc = "returned" /\ rp'[m].calls = rp[m].calls)]_vars

C15_Witness ==
    /\ rp # <<>>
    /\ rpCfg[1].successAfterCalls = 2
    /\ rp[1].pc = "returned"
    /\ rp[1].result = nil
    /\ rp[1].calls = 2

\* the deadline of newCtx: its own, or the caller's when that one is earlier
EffectiveDeadline(m) ==
    IF ctx.deadline = NoDeadline THEN rp[m].deadline
    ELSE Min(rp[m].deadline, ctx.deadline)

\* C16, as claimed: RetryingProber returns "prober timed out" only when its
\* deadline has passed, and when the caller's context is cancelled before the
\* deadline and before any attempt has succeeded it returns "retrying prober
\* failed" and starts no attempt after the cancellation.
C16_AsClaimed ==
    \A m \in DOMAIN rp :
        /\ rp[m].result = errProberTimedOut =>
                (rp[m].err = DeadlineExceeded /\ now >= EffectiveDeadline(m))
        /\ rp[m].err = Canceled =>
                /\ rp[m].late = 0
                /\ rp[m].pc = "returned" => rp[m].result = errRetryingFailed

\* C16, amended: RetryingProber returns "prober timed out" only when newCtx
\* ended at its deadline and "retrying prober failed" only when the caller
\* cancelled; a cancellation that arrives while RetryingProber waits in its
\* select makes it return "retrying prober failed" at that moment with no
\* further attempt; an attempt is begun after newCtx ended only when newCtx
\* ended during an attempt (a tick delivered meanwhile may be served first).
C16_CancelObservedInSelect ==
    \A m \in DOMAIN rp :
        /\ rp[m].result = errProberTimedOut =>
                /\ rp[m].err = DeadlineExceeded
                /\ rp[m].doneAt = EffectiveDeadline(m)
        /\ rp[m].result = errRetryingFailed =>
                /\ rp[m].err = Canceled
                /\ ctx.err = Canceled
        /\ (rp[m].err = Canceled /\ rp[m].doneWhile = "select") =>
                /\ rp[m].late = 0
                /\ rp[m].pc \in {"select", "returned"}
                /\ rp[m].pc = "returned" =>
                        /\ rp[m].result = errRetryingFailed
                        /\ rp[m].returnedAt = rp[m].doneAt
        /\ rp[m].late > 0 => rp[m].doneWhile = "probing"

C16_Witness ==
    /\ rp # <<>>
    /\ rp[1].pc = "returned"
    /\ rp[1].err = Canceled
    /\ rp[1].doneWhile = "select"
    /\ rp[1].calls = 2
    /\ rp[1].result = errRetryingFailed
    /\ now < rp[1].deadline

\* ---------------------------------------------------------- ParallelProber
\* ParallelProber is called at time 0 with a live context
ParallelInit ==
    /\ ManagerInit
    /\ now = 0
    /\ ctx \in CallerContexts
    /\ rpCfg = <<>>
    /\ rp = <<>>
    /\ \E n \in 1..MaxMembers :
        /\ ppCfg \in [1..n -> MemberConfigs]
        /\ pp = ParallelStart(n, ctx)
    /\ TestMainIdle

\* errGroup.Wait() returns once every goroutine of the group has returned
GroupWait == AllReturned

\* one pass of `for _, probe := range probers { errGroup.Go(...) }`: the
\* goroutine calls probe(newCtx); after the last pass the forwarding goroutine
\* is started and ParallelProber enters its select
ParallelGo ==
    /\ pp.pc = "launching"
    /\ \E i \in DOMAIN pp.member :
        /\ pp.member[i].state = "none"
        /\ \A j \in DOMAIN pp.member : j < i => pp.member[j].state # "none"
        /\ LET last == i = Len(ppCfg)
               w == ppCfg[i].workLoad
           IN pp' = [pp EXCEPT !.member[i].state = "running",
                               !.member[i].calls = pp.member[i].calls + 1,
                               !.member[i].end = IF w = Never THEN Never ELSE now + w,
                               !.pc = IF last THEN "select" ELSE "launching",
                               !.forwarder = IF last THEN "waiting" ELSE "none"]
    /\ UNCHANGED <<now, ctx, rpCfg, rp, ppCfg>>
    /\ UNCHANGED managerVars
    /\ UNCHANGED testMainVars

\* the goroutine of errGroup.Go once probe(newCtx) returned res: the first
\* error is kept and cancels newCtx
GroupDone(i, res) ==
    [pp EXCEPT !.member[i].state = "returned",
               !.member[i].result = res,
               !.groupErr = IF pp.groupErr = nil THEN res ELSE pp.groupErr,
               !.failedAt = IF res # nil /\ pp.failedAt = -1 THEN now ELSE pp.failedAt,
               !.newErr = IF res # nil /\ pp.newErr = nil THEN Canceled ELSE pp.newErr]

\* a probe returns its own result
MemberReturn(i) ==
    /\ MemberRunning(i)
    /\ pp.member[i].end = now
    /\ pp' = GroupDone(i, ppCfg[i].result)
    /\ UNCHANGED <<now, ctx, rpCfg, rp, ppCfg>>
    /\ UNCHANGED managerVars
    /\ UNCHANGED testMainVars

\* a probe that honours its context returns the context's error
MemberAbort(i) ==
    /\ MemberRunning(i)
    /\ ppCfg[i].honours
    /\ pp.newErr # nil
    /\ pp' = GroupDone(i, pp.newErr)
    /\ UNCHANGED <<now, ctx, rpCfg, rp, ppCfg>>
    /\ UNCHANGED managerVars
    /\ UNCHANGED testMainVars

\* errGroup.Wait() returns in the forwarding goroutine, which goes on to
\* `errChan <- err`; Wait cancels newCtx
ParallelWaitReturn ==
    /\ pp.pc \in {"select", "returned"}
    /\ pp.forwarder = "waiting"
    /\ GroupWait
    /\ ~ParallelSelectReady
    /\ pp' = [pp EXCEPT !.forwarder = "sending",
                        !.newErr = IF pp.newErr = nil THEN Canceled ELSE pp.newErr]
    /\ UNCHANGED <<now, ctx, rpCfg, rp, ppCfg>>
    /\ UNCHANGED managerVars
    /\ UNCHANGED testMainVars

\* variant: a group error is reported as success
ParallelErrResultDropsErr(err) == nil

\* case err := <-errChan
ParallelErrResult(err) == IF err # nil THEN errParallelErrored ELSE nil

\* variant: every end of ctx is reported as a timeout
ParallelDoneResultAlwaysTimeout(err) == errParallelTimedOut

\* case <-ctx.Done()
ParallelDoneResult(err) ==
    IF err = DeadlineExceeded THEN errParallelTimedOut ELSE errParallelFailed

\* select takes errChan: the forwarding goroutine hands over what Wait returned
ParallelRecv ==
    /\ pp.pc = "select"
    /\ pp.forwarder = "sending"
    /\ pp' = [pp EXCEPT !.pc = "returned",
                        !.result = ParallelErrResult(pp.groupErr),
                        !.returnedAt = now,
                        !.forwarder = "exited"]
    /\ UNCHANGED <<now, ctx, rpCfg, rp, ppCfg>>
    /\ UNCHANGED managerVars
    /\ UNCHANGED testMainVars

\* select takes ctx.Done()
ParallelCtxDone ==
    /\ pp.pc = "select"
    /\ ctx.err # nil
    /\ pp' = [pp EXCEPT !.pc = "returned",
                        !.result = ParallelDoneResult(ctx.err),
                        !.returnedAt = now]
    /\ UNCHANGED <<now, ctx, rpCfg, rp, ppCfg>>
    /\ UNCHANGED managerVars
    /\ UNCHANGED testMainVars

\* something of ParallelProber is due at the present instant
ParallelUrgent ==
    \/ pp.pc = "launching"
    \/ ParallelSelectReady
    \/ ctx.err = nil /\ ctx.deadline = now
    \/ pp.forwarder = "waiting" /\ GroupWait
    \/ \E i \in DOMAIN pp.member :
        /\ MemberRunning(i)
        /\ (pp.member[i].end = now \/ (ppCfg[i].honours /\ pp.newErr # nil))

\* time passes while ParallelProber or one of its probes runs and nothing is due
ParallelAdvance ==
    /\ Launched
    /\ pp.pc = "select" \/ \E i \in DOMAIN pp.member : MemberRunning(i)
    /\ ~ParallelUrgent
    /\ now < MaxNow
    /\ now' = now + 1
    /\ UNCHANGED <<ctx, rpCfg, rp, ppCfg, pp>>
    /\ UNCHANGED managerVars
    /\ UNCHANGED testMainVars

ParallelNext ==
    \/ ParallelGo
    \/ \E i \in DOMAIN ppCfg : MemberReturn(i)
    \/ \E i \in DOMAIN ppCfg : MemberAbort(i)
    \/ ParallelWaitReturn
    \/ ParallelRecv
    \/ ParallelCtxDone
    \/ CtxCancel
    \/ CtxDeadline
    \/ ParallelAdvance

SpecParallel == ParallelInit /\ [][ParallelNext]_vars

\* ------------------------------------------------------------------ claims
\* (ParallelProber)

C18_ReturnsOnFirstFailure ==
    (Launched /\ ctx.err = nil /\ pp.failedAt # -1) =>
        /\ pp.newErr = Canceled
        /\ now > pp.failedAt =>
                /\ pp.pc = "returned"
                /\ pp.result = errParallelErrored
                /\ pp.returnedAt = pp.failedAt

MaxFixtures == 1
SIGUSR1 == 10

\* values the test runner's Run may return
TestRunValues == {0, 8}

\* TestMain is called with a new Manager
TestMainInit ==
    /\ ManagerInit
    /\ ProberIdle
    /\ tm = [pc |-> "called", probe |-> "none", probeCalls |-> 0,
             runCalls |-> 0, runVal |-> -1, ret |-> -1]

\* manager.Add(fmt.Sprintf("test-fixture-%T", component), component)
TestMainAdd(c) ==
    /\ tm.pc = "called"
    /\ Len(components) < MaxFixtures
    /\ Add(c)

\* prober(context.Background()) is called in proberLifetime and returns res
TestMainProbe(res) ==
    /\ tm.pc \in {"called", "returned"}
    /\ lifetimeTask = "running"
    /\ tm.probe = "none"
    /\ tm' = [tm EXCEPT !.probe = res, !.probeCalls = tm.probeCalls + 1]
    /\ UNCHANGED managerVars
    /\ UNCHANGED proberVars

\* m.Run() of the test runner is called in proberLifetime and returns v
TestMainRunTests(v) ==
    /\ lifetimeTask = "running"
    /\ tm.probe = nil
    /\ tm.runCalls = 0
    /\ tm' = [tm EXCEPT !.runCalls = 1, !.runVal = v]
    /\ UNCHANGED managerVars
    /\ UNCHANGED proberVars

\* variant: the tests' result is returned whatever the prober said
proberLifetimeIgnoresProbe(res, v) == v

\* variant: the failure code is returned whatever the tests returned
proberLifetimeAlwaysFails(res, v) == SIGUSR1

\* the value proberLifetime returns
proberLifetime(res, v) == IF res # nil THEN SIGUSR1 ELSE v

\* proberLifetime returns to the goroutine of waitForSignal
TestMainLifetimeReturn ==
    /\ \/ tm.probe = errComponent
       \/ tm.probe = nil /\ tm.runCalls = 1
    /\ LifetimeReturn(proberLifetime(tm.probe, tm.runVal))

\* sysSignal := manager.Run(); managerStopped <- sysSignal; TestMain returns it
TestMainReturn ==
    /\ tm.pc = "called"
    /\ pc = "done"
    /\ tm' = [tm EXCEPT !.pc = "returned", !.ret = retval]
    /\ UNCHANGED managerVars
    /\ UNCHANGED proberVars

TestMainNext ==
    \/ \E c \in Capabilities : TestMainAdd(c)
    \/ Run
    \/ SetupIter
    \/ \E res \in {nil, errComponent} : SetupDone(res)
    \/ SetupTimer
    \/ LeakedDone
    \/ StartIter
    \/ \E i \in DOMAIN starter, res \in {nil, errComponent} : StartReturn(i, res)
    \/ \E i \in DOMAIN starter : StartPanic(i)
    \/ \E i \in DOMAIN starter : StartSend(i)
    \/ WaitSpawn
    \/ \E res \in {nil, errComponent} : TestMainProbe(res)
    \/ \E v \in TestRunValues : TestMainRunTests(v)
    \/ TestMainLifetimeReturn
    \/ LifetimeSend
    \/ Recv
    \/ CloseIter
    \/ \E res \in {nil, errComponent} : CloseDone(res)
    \/ CloseTimer
    \/ TestMainReturn

SpecTestMain == TestMainInit /\ [][TestMainNext]_vars

\* C20, as claimed: when the readiness probe fails and every Setup and Close
\* of the fixtures succeeds, TestMain returns SIGUSR1, the test runner's Run
\* has not been invoked and the probe has been invoked exactly once.
C20_AsClaimed ==
    (tm.pc = "returned" /\ tm.probe = errComponent /\ phaseErr = NoErr) =>
        /\ tm.ret = SIGUSR1
        /\ tm.runCalls = 0
        /\ tm.probeCalls = 1

\* C20, amended: the probe is invoked at most once, and after a probe that
\* failed the test runner's Run is never invoked; when every Setup and Close
\* of the fixtures succeeds and the value of the failed probe is the first
\* one sent to exitSignal, as it is when no fixture's Start fails or panics,
\* TestMain returns SIGUSR1.
C20_ProbeFailureSkipsTests ==
    /\ tm.probeCalls <= 1
    /\ tm.probe = errComponent => (tm.runCalls = 0 /\ tm.probeCalls = 1)
    /\ (tm.pc = "returned" /\ tm.probe = errComponent /\ phaseErr = NoErr) =>
        /\ (written # <<>> /\ written[1] = LifetimeSrc) => tm.ret = SIGUSR1
        /\ (\A i \in DOMAIN outcome : outcome[i] \notin {"err", "panic"}) =>
                tm.ret = SIGUSR1

C20_Witness ==
    /\ tm.pc = "returned"
    /\ tm.probe = errComponent
    /\ tm.ret = SIGUSR1
    /\ tm.runCalls = 0
    /\ tm.probeCalls = 1
    /\ setupOk = <<1>>
    /\ closeOk = <<1>>
    /\ outcome = <<"ok">>

\* every index of S occurs exactly once in calls, and no other index does
CalledOnce(calls, S) ==
    /\ Range(calls) = S
    /\ Len(calls) = Cardinality(S)

\* C21, as claimed: when the probe succeeded and every Setup and Close of the
\* fixtures succeeded, TestMain has invoked the test runner's Run exactly
\* once and returns its exit status, and every fixture has been set up,
\* started and closed exactly once.
C21_AsClaimed ==
    (tm.pc = "returned" /\ tm.probe = nil /\ phaseErr = NoErr) =>
        /\ tm.runCalls = 1
        /\ tm.ret = tm.runVal
        /\ CalledOnce(setupCalls, Setupables)
        /\ CalledOnce(launches, Startables)
        /\ CalledOnce(closeCalls, Closables)

\* C21, amended: the test runner's Run is invoked at most once and only
\* after the probe has returned success; when every Setup and Close of the
\* fixtures succeeds, every fixture has been set up, started and closed
\* exactly once (each for the capabilities it has), and when moreover the
\* value of proberLifetime is the first one sent to exitSignal, as it is when
\* no fixture's Start fails or panics, the test runner's Run has been invoked
\* exactly once and TestMain returns its exit status unchanged.
C21_ProbeSuccessRunsTests ==
    /\ tm.runCalls <= 1
    /\ tm.runCalls = 1 => (tm.probe = nil /\ tm.probeCalls = 1)
    /\ (tm.pc = "returned" /\ phaseErr = NoErr) =>
        /\ CalledOnce(setupCalls, Setupables)
        /\ CalledOnce(launches, Startables)
        /\ CalledOnce(closeCalls, Closables)
    /\ (tm.pc = "returned" /\ tm.probe = nil /\ phaseErr = NoErr) =>
        /\ (written # <<>> /\ written[1] = LifetimeSrc) =>
                (tm.runCalls = 1 /\ tm.ret = tm.runVal)
        /\ (\A i \in DOMAIN outcome : outcome[i] \notin {"err", "panic"}) =>
                (tm.runCalls = 1 /\ tm.ret = tm.runVal)

C21_Witness ==
    /\ tm.pc = "returned"
    /\ tm.probe = nil
    /\ tm.runCalls = 1
    /\ tm.runVal = 8
    /\ tm.ret = 8
    /\ components = <<[hasSetup |-> TRUE, hasStart |-> TRUE, hasClose |-> TRUE]>>
    /\ setupCalls = <<1>>
    /\ launches = <<1>>
    /\ closeCalls = <<1>>

\* ------------------------------------------------------------ Run, again
\* (src/manager.go) Run is called again on a Manager whose Run has returned.

MaxRuns == 2
MaxRerunComponents == 1

\* every goroutine of the earlier Run has ended
Quiescent ==
    /\ opTask \in {"none", "finished"}
    /\ lifetimeTask \in {"none", "exited"}
    /\ \A i \in DOMAIN starter : starter[i] \in {"none", "exited"}

RerunAdd(c) ==
    /\ Len(components) < MaxRerunComponents
    /\ Add(c)

\* the caller invokes Run on the Manager once more: the components and the
\* channel exitSignal, with what it still holds, are those of the earlier Run
RunAgain ==
    /\ pc = "done"
    /\ runs < MaxRuns
    /\ Quiescent
    /\ runs' = runs + 1
    /\ pc' = "setupComponents"
    /\ idx' = 1
    /\ retval' = -1
    /\ signal' = NoMsg
    /\ phaseErr' = NoErr
    /\ opTask' = "none"
    /\ opResult' = "none"
    /\ starter' = [i \in DOMAIN components |-> "none"]
    /\ outcome' = [i \in DOMAIN components |-> "none"]
    /\ lifetimeTask' = "none"
    /\ lifetimeVal' = -1
    /\ afterFire' = {}
    /\ UNCHANGED <<components, exitSignal, crashed, setupCalls, setupOk,
                   launches, closeCalls, closeOk, written, lifetimeCalls>>
    /\ UNCHANGED proberVars
    /\ UNCHANGED testMainVars

RerunNext ==
    \/ \E c \in Capabilities : RerunAdd(c)
    \/ Run
    \/ RunAgain
    \/ SetupIter
    \/ \E res \in {nil, errComponent} : SetupDone(res)
    \/ SetupTimer
    \/ LeakedDone
    \/ StartIter
    \/ \E i \in DOMAIN starter, res \in {nil, errComponent} : StartReturn(i, res)
    \/ \E i \in DOMAIN starter : StartPanic(i)
    \/ \E i \in DOMAIN starter : StartSend(i)
    \/ WaitSpawn
    \/ \E v \in LifetimeValues : LifetimeReturn(v)
    \/ LifetimeSend
    \/ Recv
    \/ CloseIter
    \/ \E res \in {nil, errComponent} : CloseDone(res)
    \/ CloseTimer

SpecRerun == Init /\ [][RerunNext]_vars

\* no index occurs twice in calls
NoRepeat(calls) == Len(calls) = Cardinality(Range(calls))

\* C22: a second call of Run on a Manager whose Run has returned enters no
\* phase of the lifecycle again, and no component's Setup, Start or Close is
\* invoked a second time.
C22_NoSecondLifecycle ==
    runs > 1 =>
        /\ pc = "done"
        /\ NoRepeat(setupCalls)
        /\ NoRepeat(launches)
        /\ NoRepeat(closeCalls)

\* ------------------------------------------------------------------ claims
\* (Manager, continued)

\* C23: a runner whose Start returns without error writes nothing to the
\* channel: the step of its return changes neither the position of Run nor
\* the channel, its goroutine ends without a send, and the cause Run receives
\* comes from the termination source or from a runner that failed or panicked.
C23_CleanStartWritesNothing ==
    /\ [](/\ \A i \in DOMAIN outcome : outcome[i] = "ok" =>
                /\ starter[i] = "exited"
                /\ i \notin Range(written)
                /\ signal.src # i
                /\ \A m \in Range(exitSignal) : m.src # i
          /\ Received =>
                \/ signal.src = LifetimeSrc
                \/ outcome[signal.src] \in {"err", "panic"})
    /\ [][\A i \in DOMAIN outcome :
            (outcome[i] = "none" /\ outcome'[i] = "ok") =>
                UNCHANGED <<pc, retval, signal, exitSignal, written>>]_vars

C23_Witness ==
    /\ Returned
    /\ N = 2
    /\ outcome = <<"ok", "err">>
    /\ signal.src = 2
    /\ written = <<2>>
    /\ retval = SIGABRT

\* ------------------------------------------------------------- progress
\* The Manager under the scheduling the code can count on: the goroutine of
\* Run goes on whenever it can, a timer that was set fires, and a goroutine
\* that has a value to send sends it when the channel has room. Nothing is
\* assumed of Setup, Start, Close and the termination source: they may never
\* return.

MaxLiveComponents == 1

LiveAdd(c) ==
    /\ Len(components) < MaxLiveComponents
    /\ Add(c)

LiveNext ==
    \/ \E c \in Capabilities : LiveAdd(c)
    \/ Run
    \/ SetupIter
    \/ \E res \in {nil, errComponent} : SetupDone(res)
    \/ SetupTimer
    \/ LeakedDone
    \/ StartIter
    \/ \E i \in DOMAIN starter, res \in {nil, errComponent} : StartReturn(i, res)
    \/ \E i \in DOMAIN starter : StartPanic(i)
    \/ \E i \in DOMAIN starter : StartSend(i)
    \/ WaitSpawn
    \/ \E v \in LifetimeValues : LifetimeReturn(v)
    \/ LifetimeSend
    \/ Recv
    \/ CloseIter
    \/ \E res \in {nil, errComponent} : CloseDone(res)
    \/ CloseTimer

Fairness ==
    /\ WF_vars(SetupIter)
    /\ WF_vars(SetupTimer)
    /\ WF_vars(StartIter)
    /\ WF_vars(WaitSpawn)
    /\ WF_vars(\E i \in DOMAIN starter : StartSend(i))
    /\ WF_vars(LifetimeSend)
    /\ WF_vars(Recv)
    /\ WF_vars(CloseIter)
    /\ WF_vars(CloseTimer)

SpecLive == Init /\ [][LiveNext]_vars /\ Fairness

\* C24: Run never waits for a start task: in startComponents and on entering
\* waitForSignal its next step can always be taken, whatever the start
\* goroutines are doing; it reaches waitForSignal with every startable
\* component launched; and once waitForSignal has received its cause, Run
\* goes through closeComponents and returns, also when a Start never returns.
C24_RunDoesNotWaitForStart ==
    /\ [](/\ pc = "startComponents" => ENABLED StartIter
          /\ pc = "waitForSignal" =>
                /\ ENABLED WaitSpawn
                /\ Range(launches) = Startables
          /\ pc = "closeComponents" => ENABLED CloseIter)
    /\ (Received ~> Returned)

C24_Witness ==
    /\ Returned
    /\ Received
    /\ starter = <<"running">>
    /\ outcome = <<"none">>
    /\ closeOk = <<1>>
    /\ retval = 15

\* some cause is there for waitForSignal, or on its way to the channel
CauseAvailable ==
    \/ lifetimeTask = "returned"
    \/ \E i \in DOMAIN starter : starter[i] = "sending"
    \/ exitSignal # <<>>

\* C25: Run blocks only at a Setup or Close call, up to its timeout, and in
\* the wait phase: from every other position it goes on by itself, a Setup
\* or Close that never returns holds it only until the timer fires, and from
\* the wait phase it returns once the termination source has returned or a
\* runner has failed or panicked.
C25_RunReturns ==
    /\ ((Running /\ pc # "recv") ~> (pc \in {"recv", "done"}))
    /\ ((pc = "recv" /\ CauseAvailable) ~> Returned)

C25_Witness ==
    /\ Returned
    /\ phaseErr = [phase |-> "close", idx |-> 1, err |-> errTimeout]
    /\ opTask = "leaked"
    /\ setupOk = <<1>>
    /\ retval = SIGALRM

\* Run has left startComponents
PastStart ==
    \/ pc \in {"waitForSignal", "recv", "closeComponents", "closeWait"}
    \/ pc = "done" /\ phaseErr.phase # "setup"

\* C26: once every Setup has succeeded, the Start of every startable
\* component is launched exactly once, in its own goroutine, whatever became
\* of the runners launched before: the loop of startComponents can always go
\* on, and when Run has left it every startable component has been launched.
C26_EveryRunnerLaunched ==
    /\ NoRepeat(launches)
    /\ Range(launches) \subseteq Startables
    /\ \A i \in DOMAIN starter : (starter[i] # "none") <=> (i \in Range(launches))
    /\ launches # <<>> => Range(setupOk) = Setupables
    /\ pc = "startComponents" =>
            /\ Range(setupOk) = Setupables
            /\ ENABLED StartIter
    /\ PastStart => Range(launches) = Startables

C26_Witness ==
    /\ PastStart
    /\ launches = <<1, 2>>
    /\ outcome[1] = "panic"
    /\ starter[2] = "running"
    /\ written = <<1>>
    /\ signal.src = 1

\* C27: when a Close fails or times out, closeComponents stops at that
\* component and Run returns: the failed call is the last Close call of the
\* Run, the closable components registered after it have been closed before
\* it, and the Close of those registered before it is never called.
C27_CloseAbortsAtFailure ==
    /\ [](phaseErr.phase = "close" =>
            /\ Returned
            /\ closeCalls # <<>>
            /\ closeCalls[Len(closeCalls)] = phaseErr.idx
            /\ Range(closeCalls) = {i \in Closables : i >= phaseErr.idx}
            /\ Range(closeOk) = {i \in Closables : i > phaseErr.idx}
            /\ NoRepeat(closeCalls))
    /\ [][phaseErr.phase = "close" => closeCalls' = closeCalls]_vars

C27_Witness ==
    /\ Returned
    /\ N = 2
    /\ Closables = {1, 2}
    /\ phaseErr = [phase |-> "close", idx |-> 2, err |-> errComponent]
    /\ closeCalls = <<2>>
    /\ closeOk = <<>>
    /\ retval = SIGABRT

\* C28: the termination source is called at most once in a Run, exactly once
\* when Run gets past startComponents and waitForSignal has started its
\* goroutine, and never before every Setup has succeeded and every startable
\* component has been launched; in TestMain, where it is proberLifetime,
\* neither the probe nor the tests run before that.
C28_LifetimeAfterStart ==
    /\ lifetimeCalls <= 1
    /\ (lifetimeCalls = 1) <=> (lifetimeTask # "none")
    /\ (lifetimeCalls = 1) <=> (PastStart /\ pc # "waitForSignal")
    /\ lifetimeCalls = 1 =>
            /\ Range(setupOk) = Setupables
            /\ Range(launches) = Startables
            /\ \A i \in Startables : starter[i] # "none"
    /\ (tm.probeCalls > 0 \/ tm.runCalls > 0) =>
            /\ lifetimeCalls = 1
            /\ Range(setupOk) = Setupables
            /\ Range(launches) = Startables

C28_Witness ==
    /\ pc = "recv"
    /\ lifetimeCalls = 1
    /\ tm.probe = nil
    /\ tm.runCalls = 1
    /\ setupOk = <<1>>
    /\ launches = <<1>>
    /\ starter = <<"running">>

\* ------------------------------------------------------------------ claims
\* (RetryingProber, continued)

\* the context of the attempt in progress or made last ends at the tick's time
\* plus the interval, or with newCtx when that is earlier
AttemptContextBounded(m) ==
    rp[m].calls > 0 =>
        /\ rp[m].attemptDeadline =
                Min(rp[m].attemptTick + rpCfg[m].retryDelay, rp[m].deadline)
        /\ rp[m].attemptDeadline <= rp[m].attemptTick + rpCfg[m].retryDelay
        /\ rp[m].attemptDeadline <= rp[m].deadline

\* the attempt in progress ends no later than the tick after the one it serves
EndsByNextTick(m) ==
    rp[m].pc = "probing" =>
        /\ rp[m].attemptEnd <= rp[m].attemptTick + rpCfg[m].retryDelay
        /\ rp[m].attemptEnd <= rp[m].nextTick
        /\ now <= rp[m].attemptEnd

\* every attempt began at the time of its tick and no tick was dropped
AttemptsInTheirSlot(m) ==
    /\ rp[m].calls > 0 => rp[m].attemptStart = rp[m].attemptTick
    /\ rp[m].dropped = 0
    /\ rp[m].tick # <<>> => rp[m].tick[1] = now

\* C29, as claimed: every attempt of RetryingProber gets a context that ends at
\* the tick's time plus the interval or at the overall deadline when that is
\* earlier, an attempt that honours its context ends no later than the next
\* tick, and no attempt, honouring or not, delays the attempts after it.
C29_AsClaimed ==
    \A m \in DOMAIN rp :
        /\ AttemptContextBounded(m)
        /\ rpCfg[m].honours => EndsByNextTick(m)
        /\ AttemptsInTheirSlot(m)

\* C29, amended: every attempt of RetryingProber gets a context that ends at
\* the tick's time plus the interval or at the overall deadline when that is
\* earlier; with a probe that honours its context every attempt ends no later
\* than the next tick, every attempt begins at the time of its tick and no
\* tick is dropped.
C29_AttemptBoundedBySlot ==
    \A m \in DOMAIN rp :
        /\ AttemptContextBounded(m)
        /\ rpCfg[m].honours =>
                /\ EndsByNextTick(m)
                /\ AttemptsInTheirSlot(m)

C29_Witness ==
    /\ rp # <<>>
    /\ rpCfg[1].honours
    /\ rpCfg[1].retryDelay = 1
    /\ rpCfg[1].workLoad = 2
    /\ rp[1].pc = "probing"
    /\ rp[1].calls = 3
    /\ rp[1].cut
    /\ rp[1].attemptTick = 3
    /\ rp[1].attemptStart = 3
    /\ rp[1].attemptDeadline = 4
    /\ rp[1].attemptEnd = 4
    /\ rp[1].deadline > 4

\* ------------------------------------- ParallelProber of RetryingProbers
\* ParallelProber given RetryingProbers, as in the tests: member i of the
\* errgroup runs RetryingProber i, whose newCtx is derived from the context of
\* the group
TestMembers == 2
MaxGroupTimeout == 4
MaxGroupNow == 6

\* the first RetryingProber of the test: its deadline is the later one
SiblingConfigs ==
    [retryDelay : 1..MaxInterval,
     timeout : {MaxGroupTimeout + 1},
     successAfterCalls : {1, NeverSucceeds},
     workLoad : 0..MaxWork,
     honours : BOOLEAN]

\* the second RetryingProber of the test, the one that gives up: its probe
\* answers at once and never succeeds before the deadline
QuitterConfigs ==
    [retryDelay : 1..MaxInterval,
     timeout : 1..MaxGroupTimeout,
     successAfterCalls : {NeverSucceeds},
     workLoad : {0},
     honours : {FALSE}]

\* RetryingProber i before its goroutine exists
RetryNotCalled(cfg) == [RetryStart(cfg, [err |-> nil], 0) EXCEPT !.pc = "none"]

\* ParallelProber is called at time 0 with a context that never ends
GroupInit ==
    /\ ManagerInit
    /\ now = 0
    /\ ctx = [err |-> nil, deadline |-> NoDeadline]
    /\ \E c1 \in SiblingConfigs, c2 \in QuitterConfigs : rpCfg = <<c1, c2>>
    /\ rp = [i \in 1..TestMembers |-> RetryNotCalled(rpCfg[i])]
    /\ ppCfg = <<>>
    /\ pp = ParallelStart(TestMembers, ctx)
    /\ TestMainIdle

\* one pass of `for _, probe := range probers { errGroup.Go(...) }` when the
\* probe is a RetryingProber: the goroutine calls it with newCtx of the group
GroupGo ==
    /\ pp.pc = "launching"
    /\ \E i \in DOMAIN pp.member :
        /\ pp.member[i].state = "none"
        /\ \A j \in DOMAIN pp.member : j < i => pp.member[j].state # "none"
        /\ LET last == i = Len(rpCfg)
           IN pp' = [pp EXCEPT !.member[i].state = "running",
                               !.member[i].calls = pp.member[i].calls + 1,
                               !.pc = IF last THEN "select" ELSE "launching",
                               !.forwarder = IF last THEN "waiting" ELSE "none"]
        /\ rp' = [rp EXCEPT ![i] = RetryStart(rpCfg[i], [err |-> pp.newErr], now)]
    /\ UNCHANGED <<now, ctx, rpCfg, ppCfg>>
    /\ UNCHANGED managerVars
    /\ UNCHANGED testMainVars

\* variant: the error of a member does not reach the contexts of the others
GroupRetryReturnNoCancel(i) ==
    /\ pp.member[i].state = "running"
    /\ rp[i].pc = "returned"
    /\ pp' = GroupDone(i, rp[i].result)
    /\ UNCHANGED <<now, ctx, rpCfg, rp, ppCfg>>
    /\ UNCHANGED managerVars
    /\ UNCHANGED testMainVars

\* RetryingProber i has returned in its goroutine of the group: its error, if
\* it is the first, cancels newCtx of the group and with it newCtx of every
\* RetryingProber still at work
GroupRetryReturn(i) ==
    /\ pp.member[i].state = "running"
    /\ rp[i].pc = "returned"
    /\ pp' = GroupDone(i, rp[i].result)
    /\ rp' = IF rp[i].result # nil /\ pp.newErr = nil THEN Propagate(Canceled) ELSE rp
    /\ UNCHANGED <<now, ctx, rpCfg, ppCfg>>
    /\ UNCHANGED managerVars
    /\ UNCHANGED testMainVars

\* something of the group is due at the present instant
GroupUrgent ==
    \/ pp.pc = "launching"
    \/ ParallelSelectReady
    \/ pp.forwarder = "waiting" /\ GroupWait
    \/ \E i \in DOMAIN pp.member : pp.member[i].state = "running" /\ rp[i].pc = "returned"

\* time passes while nothing is due
GroupAdvance ==
    /\ pp.pc = "select" \/ \E m \in DOMAIN rp : Active(m)
    /\ ~GroupUrgent
    /\ ~RetryUrgent
    /\ now < MaxGroupNow
    /\ now' = now + 1
    /\ UNCHANGED <<ctx, rpCfg, rp, ppCfg, pp>>
    /\ UNCHANGED managerVars
    /\ UNCHANGED testMainVars

GroupNext ==
    \/ GroupGo
    \/ \E m \in DOMAIN rp : RetryTickerFire(m)
    \/ \E m \in DOMAIN rp : RetryDeadline(m)
    \/ \E m \in DOMAIN rp : RetrySelectDone(m)
    \/ \E m \in DOMAIN rp : RetrySelectTick(m)
    \/ \E m \in DOMAIN rp : RetryProbeReturn(m)
    \/ \E i \in DOMAIN rp : GroupRetryReturn(i)
    \/ ParallelWaitReturn
    \/ ParallelRecv
    \/ GroupAdvance

SpecGroup == GroupInit /\ [][GroupNext]_vars

\* ------------------------------------------------------------------ claims
\* (ParallelProber of RetryingProbers)

\* newCtx of RetryingProber m was ended by the failure of another member
CancelledByGroup(m) ==
    /\ rp[m].err = Canceled
    /\ pp.groupErr # nil
    /\ rp[m].doneAt = pp.failedAt

\* C30, as claimed: once the failure of a member has cancelled the context of
\* the group, a RetryingProber beside it begins no attempt any more, and the
\* number of its attempts is the number of ticks its ticker sent before the
\* cancellation.
C30_AsClaimed ==
    \A m \in DOMAIN rp :
        CancelledByGroup(m) =>
            /\ rp[m].late = 0
            /\ rp[m].pc = "returned" => rp[m].calls = rp[m].sentAtDone

\* C30, amended: a RetryingProber that the cancellation finds waiting in its
\* select with no tick pending returns "retrying prober failed" at that moment
\* without a further attempt, having made one attempt for each tick sent before
\* and not dropped; an attempt is begun after the cancellation only when the
\* cancellation came during an attempt or while a tick was pending; with probes
\* that answer at once and a member whose deadline falls strictly between two
\* ticks, as in the test, the number of attempts is the number of ticks sent
\* before that deadline.
C30_CancelStopsWaitingSibling ==
    \A m \in DOMAIN rp :
        /\ (CancelledByGroup(m) /\ rp[m].doneWhile = "select" /\ rp[m].pendingAtDone = 0) =>
                /\ rp[m].late = 0
                /\ rp[m].pc \in {"select", "returned"}
                /\ rp[m].calls + rp[m].dropped = rp[m].sentAtDone
                /\ rp[m].pc = "returned" =>
                        /\ rp[m].result = errRetryingFailed
                        /\ rp[m].returnedAt = rp[m].doneAt
        /\ (CancelledByGroup(m) /\ rp[m].late > 0) =>
                (rp[m].doneWhile = "probing" \/ rp[m].pendingAtDone = 1)
        /\ (/\ m = 1
            /\ rp[m].pc = "returned"
            /\ rpCfg[1].workLoad = 0
            /\ rpCfg[1].successAfterCalls = NeverSucceeds
            /\ rpCfg[2].timeout % rpCfg[1].retryDelay # 0) =>
                /\ CancelledByGroup(m)
                /\ rp[m].late = 0
                /\ rp[m].calls = rpCfg[2].timeout \div rpCfg[1].retryDelay
                /\ rp[m].calls = rp[m].sentAtDone
                /\ rp[m].result = errRetryingFailed

C30_Witness ==
    /\ rpCfg[1].retryDelay = 1
    /\ rpCfg[1].workLoad = 0
    /\ rpCfg[1].successAfterCalls = NeverSucceeds
    /\ rpCfg[2].retryDelay = 2
    /\ rpCfg[2].timeout = 3
    /\ rp[2].result = errProberTimedOut
    /\ rp[2].calls = 1
    /\ rp[1].pc = "returned"
    /\ rp[1].err = Canceled
    /\ rp[1].doneAt = 3
    /\ rp[1].calls = 3
    /\ rp[1].result = errRetryingFailed
    /\ pp.result = errParallelErrored

\* ------------------------------------------------------------------ claims
\* (RetryingProber, first attempt)

\* C31: RetryingProber does not call the probe when it is invoked: no attempt
\* begins before one full interval has passed, the first attempt serves the
\* tick sent at that time, and when the overall deadline is shorter than one
\* interval the probe is never called and RetryingProber returns, at the
\* deadline, the "prober timed out" failure (a caller that cancels before the
\* deadline gets "retrying prober failed", the probe still not called).
C31_FirstAttemptAfterOneInterval ==
    \A m \in DOMAIN rp :
        /\ now < rpCfg[m].retryDelay => rp[m].calls = 0
        /\ rp[m].calls > 0 =>
                /\ rp[m].attemptTick >= rpCfg[m].retryDelay
                /\ rp[m].attemptStart >= rpCfg[m].retryDelay
        /\ rp[m].calls = 1 => rp[m].attemptTick = rpCfg[m].retryDelay
        /\ EffectiveDeadline(m) < rpCfg[m].retryDelay =>
                /\ rp[m].calls = 0
                /\ rp[m].pc = "returned" =>
                        /\ rp[m].result # nil
                        /\ rp[m].returnedAt <= EffectiveDeadline(m)
                        /\ ctx.err # Canceled =>
                                /\ rp[m].result = errProberTimedOut
                                /\ rp[m].returnedAt = EffectiveDeadline(m)

C31_Witness ==
    /\ rp # <<>>
    /\ rpCfg[1].retryDelay = 2
    /\ rpCfg[1].timeout = 1
    /\ ctx = [err |-> nil, deadline |-> NoDeadline]
    /\ rp[1].pc = "returned"
    /\ rp[1].calls = 0
    /\ rp[1].result = errProberTimedOut
    /\ rp[1].returnedAt = 1
    /\ now = 1

\* ------------------------------------------------- progress (ParallelProber)
\* the Go scheduler runs every goroutine that can take a step, timers fire
\* and time passes; the caller is free never to cancel
ParallelFairness ==
    /\ WF_vars(ParallelGo)
    /\ WF_vars(\E i \in DOMAIN ppCfg : MemberReturn(i))
    /\ WF_vars(\E i \in DOMAIN ppCfg : MemberAbort(i))
    /\ WF_vars(ParallelWaitReturn)
    /\ WF_vars(ParallelRecv)
    /\ WF_vars(ParallelCtxDone)
    /\ WF_vars(CtxDeadline)
    /\ WF_vars(ParallelAdvance)

SpecParallelLive == ParallelInit /\ [][ParallelNext]_vars /\ ParallelFairness

\* the goroutine of `errChan <- errGroup.Wait()` is blocked in its send and
\* ParallelProber, the only receiver of errChan, has returned
ForwarderStuck ==
    /\ pp.pc = "returned"
    /\ pp.forwarder = "sending"

\* C32: once every probe given to ParallelProber has returned, the goroutine
\* that forwards the result of errGroup.Wait() terminates too, also when
\* ParallelProber has returned through its ctx.Done() case, and it is never
\* left blocked on errChan.
C32_ForwarderTerminates ==
    /\ [](~ForwarderStuck)
    /\ (Launched /\ AllReturned) ~> (pp.forwarder = "exited")
====
